---- MODULE Spec2Model ----
(***************************************************************************)
(* E-ARK test case decoding (ip_validation/cli/testcases.py).              *)
(*                                                                         *)
(* The module models the decoder TestCase.from_element and the two entry   *)
(* points that delegate to it, the nested decoders of CaseId, Rule, Error  *)
(* and Package, the testable / unknown predicates and the __str__ methods. *)
(*                                                                         *)
(* Python values are records carrying their type, so that a str, a bool,   *)
(* None and an object can be told apart the way the interpreter does.      *)
(* Python lists are objects with identity: they live in `heap` and are     *)
(* referred to by address, so that aliasing between results is visible.    *)
(***************************************************************************)
EXTENDS Naturals, Sequences, FiniteSets, TLC

VARIABLES
    xml,        \* the input of the call: an XML source (text or file)
    schema,     \* the schema argument of the call
    op,         \* the last operation applied
    outcome,    \* what the last decode call returned or raised
    strOut,     \* what the last str() call returned or raised
    heap,       \* the list objects: address -> contents
    results,    \* the TestCase objects the caller holds
    touched     \* index in results of the object whose list was last changed

vars == <<xml, schema, op, outcome, strOut, heap, results, touched>>

(***************************************************************************)
(* Bounds of the model.                                                    *)
(***************************************************************************)
MaxRules == 2       \* children of one `rules` element
MaxPackages == 2    \* children of one `corpusPackages` element
MaxCalls == 2       \* TestCase objects held at once (object-graph model)
MaxAppends == 2     \* list mutations by the caller (object-graph model)

(***************************************************************************)
(* Python values.                                                          *)
(***************************************************************************)
None == [type |-> "NoneType"]
PyStr(s) == [type |-> "str", str |-> s]
PyBool(b) == [type |-> "bool", bool |-> b]
Raise(e) == [type |-> "raise", exc |-> e]
ListRef(a) == [type |-> "list", addr |-> a]
Pending == [type |-> "pending"]

IsRaise(v) == v.type = "raise"

\* F applied to the value of v: v is evaluated once, the way an assignment
\* to a local variable evaluates its right-hand side once (lines 163-166,
\* 270-273 of testcases.py).  It changes no value, only how often TLC
\* evaluates v.
Bind(v, F(_)) == CHOOSE x \in {F(y) : y \in {v}} : TRUE

\* `[]`: a fresh list object.
NewList(h) == [heap |-> Append(h, <<>>), ret |-> ListRef(Len(h) + 1)]

\* list.append(v)
ListAppend(h, ref, v) == [h EXCEPT ![ref.addr] = Append(@, v)]

\* str + str; any other operand type is a TypeError.  An exception raised
\* while evaluating an operand propagates.
Add(a, b) ==
    IF IsRaise(a) THEN a
    ELSE IF IsRaise(b) THEN b
    ELSE IF a.type = "str" /\ b.type = "str" THEN PyStr(a.str \o b.str)
    ELSE Raise("TypeError")

\* a + b + c + ... : left to right
RECURSIVE AddAll(_, _, _)
AddAll(parts, i, acc) ==
    IF i > Len(parts) THEN acc
    ELSE AddAll(parts, i + 1, Bind(acc, LAMBDA a : Add(a, parts[i])))

(***************************************************************************)
(* lxml elements: a tag, attributes (name/value pairs), the text before    *)
(* the first child (None when there is none) and the children in document  *)
(* order.                                                                  *)
(***************************************************************************)
Element(tag, attrib, text, children) ==
    [type |-> "Element", tag |-> tag, attrib |-> attrib, text |-> text,
     children |-> children]

\* Element.get(key): the attribute's value, None when the attribute is absent.
Get(ele, key) ==
    IF \E p \in ele.attrib : p[1] = key
    THEN PyStr((CHOOSE p \in ele.attrib : p[1] = key)[2])
    ELSE None

(***************************************************************************)
(* TestCase.Rule.Package                                                   *)
(***************************************************************************)
Package_init(name, path, is_valid, description) ==
    [type |-> "Package", name |-> name, path |-> path, is_valid |-> is_valid,
     description |-> description]

\* the loop of Package.from_element: s = [path, description]
RECURSIVE Package_loop(_, _, _)
Package_loop(children, i, s) ==
    IF i > Len(children) THEN s
    ELSE Package_loop(children, i + 1,
            IF children[i].tag = "path"
            THEN [s EXCEPT !.path = children[i].text]
            ELSE IF children[i].tag = "description"
            THEN [s EXCEPT !.description = children[i].text]
            ELSE s)

Package_from_element(package_ele) ==
    LET is_valid == Get(package_ele, "isValid")
        name == Get(package_ele, "name")
    IN Bind(Package_loop(package_ele.children, 1,
                         [path |-> PyStr(""), description |-> PyStr("")]),
            LAMBDA s : Package_init(name, s.path, is_valid, s.description))

(***************************************************************************)
(* TestCase.Rule.Error                                                     *)
(***************************************************************************)
Error_init(level, message) ==
    [type |-> "Error", level |-> level, message |-> message]

\* the loop of Error.from_element
RECURSIVE Error_loop(_, _, _)
Error_loop(children, i, message) ==
    IF i > Len(children) THEN message
    ELSE Error_loop(children, i + 1,
            IF children[i].tag = "message" THEN children[i].text
            ELSE message)

Error_from_element(error_ele) ==
    LET level == Get(error_ele, "level")
        message == Error_loop(error_ele.children, 1, PyStr(""))
    IN Error_init(level, message)

(***************************************************************************)
(* TestCase.Rule                                                           *)
(***************************************************************************)
Rule_init(rule_id, description, error, packages) ==
    [type |-> "Rule", rule_id |-> rule_id, description |-> description,
     error |-> error, packages |-> packages]

\* the loop of _parse_package_list, appending to the list `packages`;
\* yields the heap after the loop
RECURSIVE PackageList_loop(_, _, _, _)
PackageList_loop(children, i, packages, h) ==
    IF i > Len(children) THEN h
    ELSE PackageList_loop(children, i + 1, packages,
            IF children[i].tag = "package"
            THEN ListAppend(h, packages, Package_from_element(children[i]))
            ELSE h)

Rule_parse_package_list(packages_ele, h) ==
    Bind(NewList(h), LAMBDA l :
        [heap |-> PackageList_loop(packages_ele.children, 1, l.ret, l.heap),
         ret |-> l.ret])

\* one iteration of the loop of Rule.from_element on the loop state
\* s = [heap, description, error, packages]
Rule_step(child, s) ==
    IF child.tag = "description"
    THEN [s EXCEPT !.description = child.text]
    ELSE IF child.tag = "error"
    THEN [s EXCEPT !.error = Error_from_element(child)]
    ELSE IF child.tag = "corpusPackages"
    THEN Bind(Rule_parse_package_list(child, s.heap), LAMBDA r :
            [s EXCEPT !.heap = r.heap, !.packages = r.ret])
    ELSE s

RECURSIVE Rule_loop(_, _, _)
Rule_loop(children, i, s) ==
    IF i > Len(children) THEN s
    ELSE Rule_loop(children, i + 1,
                   Bind(s, LAMBDA sv : Rule_step(children[i], sv)))

\* A plausible slip: the error starts as a constructed empty Error.
Rule_from_element_EmptyError(rule_ele, h) ==
    LET rule_id == Get(rule_ele, "id") IN
    Bind(NewList(h), LAMBDA l :
    Bind(Rule_loop(rule_ele.children, 1,
                   [heap |-> l.heap, description |-> PyStr(""),
                    error |-> Error_init(None, PyStr("")),
                    packages |-> l.ret]), LAMBDA s :
        [heap |-> s.heap,
         ret |-> Rule_init(rule_id, s.description, s.error, s.packages)]))

Rule_from_element(rule_ele, h) ==
    LET rule_id == Get(rule_ele, "id") IN
    Bind(NewList(h), LAMBDA l :
    Bind(Rule_loop(rule_ele.children, 1,
                   [heap |-> l.heap, description |-> PyStr(""),
                    error |-> None, packages |-> l.ret]), LAMBDA s :
        [heap |-> s.heap,
         ret |-> Rule_init(rule_id, s.description, s.error, s.packages)]))

\* str(self.error): Error defines no __str__, so it is object's; str(None)
Str_error(error) ==
    IF error = None THEN PyStr("None") ELSE PyStr("<Error object>")

Rule_str(rule) ==
    AddAll(<<rule.rule_id, PyStr(", description:"), rule.description,
             PyStr(", error:"), Str_error(rule.error)>>, 1,
           PyStr("rule_id:"))

(***************************************************************************)
(* TestCase.CaseId                                                         *)
(***************************************************************************)
CaseId_init(requirement_id, specification, version) ==
    [type |-> "CaseId", requirement_id |-> requirement_id,
     specification |-> specification, version |-> version]

CaseId_from_element(case_id_ele) ==
    LET requirement_id == Get(case_id_ele, "requirementId")
        specification == Get(case_id_ele, "specification")
        version == Get(case_id_ele, "version")
    IN CaseId_init(requirement_id, specification, version)

CaseId_str(case_id) ==
    AddAll(<<case_id.requirement_id, PyStr(", specification:"),
             case_id.specification, PyStr(", version:"), case_id.version>>,
           1, PyStr("req_id:"))

(***************************************************************************)
(* TestCase                                                                *)
(***************************************************************************)
TestCase_object(case_id, testable, references, text, rules) ==
    [type |-> "TestCase", case_id |-> case_id, testable |-> testable,
     references |-> references, text |-> text, rules |-> rules]

\* `[] if arg is None else arg`
ListOrNew(arg, h) ==
    IF arg = None THEN NewList(h) ELSE [heap |-> h, ret |-> arg]

\* A plausible slip: the references are filled from the case id.
TestCase_init_RefsFromCaseId(case_id, testable, references, text, rules, h) ==
    Bind(ListOrNew(references, h), LAMBDA r1 :
    Bind(ListOrNew(rules, r1.heap), LAMBDA r2 :
        [heap |-> IF references = None
                  THEN ListAppend(r2.heap, r1.ret, case_id) ELSE r2.heap,
         ret |-> TestCase_object(case_id, testable, r1.ret, text, r2.ret)]))

\* A plausible slip: a mutable default argument (references=[]), one list
\* object shared by every TestCase constructed without references.
TestCase_init_SharedDefault(case_id, testable, references, text, rules, h) ==
    Bind(IF references = None /\ results # <<>>
         THEN [heap |-> h, ret |-> results[1].references]
         ELSE ListOrNew(references, h), LAMBDA r1 :
    Bind(ListOrNew(rules, r1.heap), LAMBDA r2 :
        [heap |-> r2.heap,
         ret |-> TestCase_object(case_id, testable, r1.ret, text, r2.ret)]))

\* TestCase.__init__, on the heap h; yields the heap after it and the object
TestCase_init(case_id, testable, references, text, rules, h) ==
    Bind(ListOrNew(references, h), LAMBDA r1 :
    Bind(ListOrNew(rules, r1.heap), LAMBDA r2 :
        [heap |-> r2.heap,
         ret |-> TestCase_object(case_id, testable, r1.ret, text, r2.ret)]))

\* A plausible slip: everything but "FALSE" counts as testable.
TestCase_testable_NotFalse(tc) == PyBool(tc.testable # PyStr("FALSE"))

\* the properties
TestCase_testable(tc) == PyBool(tc.testable = PyStr("TRUE"))
TestCase_unknown(tc) == PyBool(tc.testable = PyStr("UNKNOWN"))
TestCase_case_id(tc) == tc.case_id
TestCase_requirement_text(tc) == tc.text
TestCase_references(tc, h) == h[tc.references.addr]
TestCase_rules(tc, h) == h[tc.rules.addr]
Rule_packages(rule, h) == h[rule.packages.addr]

\* str(self.case_id)
Str_case_id(case_id) ==
    IF case_id = None THEN PyStr("None") ELSE CaseId_str(case_id)

TestCase_str(tc) ==
    AddAll(<<Str_case_id(TestCase_case_id(tc)), PyStr(", testable:"),
             TestCase_testable(tc), PyStr(", requirement:"),
             TestCase_requirement_text(tc)>>, 1, PyStr("case_id:"))

(***************************************************************************)
(* The schema.  testCase.xsd is a resource outside the source file: what   *)
(* TC_SCHEMA accepts is taken from the specification (root tag, one id,    *)
(* known children, `rule` children under `rules`, `package` children under *)
(* `corpusPackages`).  RELAXED is an override schema that accepts every    *)
(* element.  XMLSchema.validate returns a boolean and raises nothing.      *)
(***************************************************************************)
Schemas == {"TC_SCHEMA", "RELAXED"}

ChildrenTagged(ele, tag) ==
    SelectSeq(ele.children, LAMBDA c : c.tag = tag)

Validate(sch, ele) ==
    \/ sch = "RELAXED"
    \/ /\ ele.tag = "testCase"
       /\ Len(ChildrenTagged(ele, "id")) = 1
       /\ \A i \in 1..Len(ele.children) :
            /\ ele.children[i].tag \in {"id", "requirementText", "rules"}
            /\ ele.children[i].tag = "rules" =>
                 \A j \in 1..Len(ele.children[i].children) :
                    /\ ele.children[i].children[j].tag = "rule"
                    /\ \A c \in {ChildrenTagged(ele.children[i].children[j],
                                                "corpusPackages")} :
                         \A k \in 1..Len(c) :
                            \A m \in 1..Len(c[k].children) :
                               c[k].children[m].tag = "package"

\* the loop over the children of one `rules` element, appending to the
\* list `rules`; yields the heap after the loop
RECURSIVE Rules_loop(_, _, _, _)
Rules_loop(children, i, rules, h) ==
    IF i > Len(children) THEN h
    ELSE Rules_loop(children, i + 1, rules,
            Bind(h, LAMBDA hv :
            Bind(Rule_from_element(children[i], hv), LAMBDA r :
                ListAppend(r.heap, rules, r.ret))))

\* one iteration of the loop of TestCase.from_element on the loop state
\* s = [heap, req_id, text, rules]
TestCase_step(child, s) ==
    IF child.tag = "id"
    THEN [s EXCEPT !.req_id = CaseId_from_element(child)]
    ELSE IF child.tag = "requirementText"
    THEN [s EXCEPT !.text = child.text]
    ELSE IF child.tag = "rules"
    THEN [s EXCEPT !.heap = Rules_loop(child.children, 1, s.rules, s.heap)]
    ELSE s

RECURSIVE TestCase_loop(_, _, _)
TestCase_loop(children, i, s) ==
    IF i > Len(children) THEN s
    ELSE TestCase_loop(children, i + 1,
                       Bind(s, LAMBDA sv : TestCase_step(children[i], sv)))

\* The value of schema.validate(case_ele) is computed and dropped.
TestCase_from_element(case_ele, sch, h) ==
    LET valid == Validate(sch, case_ele)
        testable == Get(case_ele, "testable")
    IN Bind(NewList(h), LAMBDA l :
       Bind(TestCase_loop(case_ele.children, 1,
                          [heap |-> l.heap, req_id |-> None,
                           text |-> PyStr(""), rules |-> l.ret]), LAMBDA s :
           TestCase_init(s.req_id, testable, None, s.text, s.rules, s.heap)))

(***************************************************************************)
(* The parsers of lxml.  An XML source is well-formed, and then denotes    *)
(* the tree of its root element, or it is not.  fromstring returns the     *)
(* root Element; parse returns an ElementTree; getroot is a method of      *)
(* ElementTree only.                                                       *)
(***************************************************************************)
ET_fromstring(src) ==
    IF src.wellformed THEN src.root ELSE Raise("XMLSyntaxError")

ET_parse(src) ==
    IF src.wellformed THEN [type |-> "ElementTree", root |-> src.root]
    ELSE Raise("XMLSyntaxError")

getroot(tree) ==
    IF tree.type = "ElementTree" THEN tree.root ELSE Raise("AttributeError")

\* tree.getroot() and the delegation, shared by the two entry points
FromTree(tree, sch, h) ==
    IF IsRaise(tree) THEN [heap |-> h, ret |-> tree]
    ELSE Bind(getroot(tree), LAMBDA root :
            IF IsRaise(root) THEN [heap |-> h, ret |-> root]
            ELSE TestCase_from_element(root, sch, h))

TestCase_from_xml_string(src, sch, h) ==
    Bind(ET_fromstring(src), LAMBDA tree : FromTree(tree, sch, h))

TestCase_from_xml_file(src, sch, h) ==
    Bind(ET_parse(src), LAMBDA tree : FromTree(tree, sch, h))

(***************************************************************************)
(* The documents the calls are applied to.                                 *)
(***************************************************************************)
Range(f) == {f[i] : i \in DOMAIN f}

SeqsUpTo(S, n) == UNION {[1..k -> S] : k \in 0..n}

Leaf(tag, text) == Element(tag, {}, text, <<>>)

Note == Leaf("note", PyStr("n"))

PkgFull ==
    Element("package", {<<"name", "pkg1">>, <<"isValid", "false">>}, None,
            <<Leaf("path", PyStr("p/1")), Leaf("description", PyStr("d1"))>>)
PkgBare == Element("package", {}, None, <<Leaf("path", None)>>)
PackageLists == SeqsUpTo({PkgFull, PkgBare, Note}, MaxPackages)

CorpusPackages(l) == Element("corpusPackages", {}, None, l)

ErrFull ==
    Element("error", {<<"level", "ERROR">>}, None,
            <<Leaf("message", PyStr("bad"))>>)
ErrBare == Element("error", {}, None, <<>>)

RuleBare == Element("rule", {}, None, <<>>)
RuleFull ==
    Element("rule", {<<"id", "R1">>}, None,
            <<Leaf("description", PyStr("desc")), ErrFull,
              CorpusPackages(<<PkgFull>>)>>)
RuleTwo ==
    Element("rule", {<<"id", "R2">>}, None,
            <<CorpusPackages(<<PkgBare, PkgFull>>), ErrBare,
              Leaf("description", None)>>)

\* rules varying in their optional children
RuleEles ==
    {Element("rule", {<<"id", "R1">>}, None, d \o e \o p) :
        d \in {<<>>, <<Leaf("description", PyStr("desc"))>>},
        e \in {<<>>, <<ErrFull>>, <<ErrBare>>},
        p \in {<<>>} \cup {<<CorpusPackages(l)>> : l \in PackageLists}}

Rules(l) == Element("rules", {}, None, l)

IdFull ==
    Element("id", {<<"requirementId", "CSIP1">>, <<"specification", "CSIP">>,
                   <<"version", "2.0">>}, None, <<>>)
IdBare == Element("id", {<<"requirementId", "CSIP2">>}, None, <<>>)

TestableValues == {"TRUE", "FALSE", "UNKNOWN", "true"}
RootAttribs == {{}} \cup {{<<"testable", v>>} : v \in TestableValues}

ReqText == Leaf("requirementText", PyStr(" The text. "))
ReqTextEmpty == Leaf("requirementText", None)

\* documents varying at the root
DocsRoot ==
    {Element(tag, a, None, i \o t \o r) :
        tag \in {"testCase", "other"},
        a \in RootAttribs,
        i \in {<<>>, <<IdFull>>, <<IdBare>>},
        t \in {<<>>, <<ReqText>>, <<ReqTextEmpty>>},
        r \in {<<>>, <<Rules(<<>>)>>, <<Rules(<<RuleFull>>)>>}}

\* documents varying in the children of `rules`
DocsRules ==
    {Element("testCase", {<<"testable", "TRUE">>}, None,
             <<IdFull, ReqText, Rules(l)>>) :
        l \in SeqsUpTo({RuleBare, RuleFull, RuleTwo, Note}, MaxRules)}

\* documents varying in the children of one rule
DocsRule ==
    {Element("testCase", {<<"testable", "FALSE">>}, None,
             <<Rules(<<r>>), IdFull>>) : r \in RuleEles}

Docs == DocsRoot \cup DocsRules \cup DocsRule

Malformed == [wellformed |-> FALSE]
Source(doc) == [wellformed |-> TRUE, root |-> doc]
Sources == {Source(d) : d \in Docs} \cup {Malformed}

(***************************************************************************)
(* One call: the input is drawn at the start, an entry point is applied to *)
(* it, and the returned objects are converted to strings.                  *)
(***************************************************************************)
Init ==
    /\ xml \in Sources
    /\ schema \in Schemas
    /\ op = "start"
    /\ outcome = Pending
    /\ strOut = Pending
    /\ heap = <<>>
    /\ results = <<>>
    /\ touched = 0

\* from_element is handed the root of a parsed tree
FromElement ==
    /\ op = "start"
    /\ xml.wellformed
    /\ \E r \in {TestCase_from_element(xml.root, schema, heap)} :
       /\ outcome' = r.ret
       /\ heap' = r.heap
    /\ op' = "from_element"
    /\ UNCHANGED <<xml, schema, strOut, results, touched>>

FromXmlString ==
    /\ op = "start"
    /\ \E r \in {TestCase_from_xml_string(xml, schema, heap)} :
       /\ outcome' = r.ret
       /\ heap' = r.heap
    /\ op' = "from_xml_string"
    /\ UNCHANGED <<xml, schema, strOut, results, touched>>

FromXmlFile ==
    /\ op = "start"
    /\ \E r \in {TestCase_from_xml_file(xml, schema, heap)} :
       /\ outcome' = r.ret
       /\ heap' = r.heap
    /\ op' = "from_xml_file"
    /\ UNCHANGED <<xml, schema, strOut, results, touched>>

Decoded == op \in {"from_element", "from_xml_string", "from_xml_file"}
Returned == Decoded /\ outcome.type = "TestCase"

StrTestCase ==
    /\ Returned
    /\ strOut' = TestCase_str(outcome)
    /\ op' = "str_TestCase"
    /\ UNCHANGED <<xml, schema, outcome, heap, results, touched>>

StrCaseId ==
    /\ Returned
    /\ TestCase_case_id(outcome) # None
    /\ strOut' = CaseId_str(TestCase_case_id(outcome))
    /\ op' = "str_CaseId"
    /\ UNCHANGED <<xml, schema, outcome, heap, results, touched>>

StrRule ==
    /\ Returned
    /\ \E rule \in {r \in Range(TestCase_rules(outcome, heap)) :
                          r.type = "Rule"} :
          strOut' = Rule_str(rule)
    /\ op' = "str_Rule"
    /\ UNCHANGED <<xml, schema, outcome, heap, results, touched>>

Next ==
    \/ FromElement
    \/ FromXmlString
    \/ FromXmlFile
    \/ StrTestCase
    \/ StrCaseId
    \/ StrRule

Spec == Init /\ [][Next]_vars

(***************************************************************************)
(* The object graphs of several calls: the caller keeps the TestCases it   *)
(* got, from the decoder or from the constructor with its default          *)
(* arguments, and appends to their lists.                                  *)
(***************************************************************************)
GraphDocs ==
    {Element("testCase", {<<"testable", "TRUE">>}, None,
             <<IdFull, ReqText, Rules(l)>>) :
        l \in {<<>>, <<RuleFull>>, <<RuleTwo, RuleBare>>}}

\* the lists a TestCase object refers to
Lists(tc, h) ==
    {tc.references, tc.rules}
        \cup {r.packages : r \in {x \in Range(h[tc.rules.addr]) :
                                     x.type = "Rule"}}

\* a TestCase with its lists replaced by their contents
DerefItem(x, h) ==
    IF x.type = "Rule" THEN [x EXCEPT !.packages = h[x.packages.addr]] ELSE x

Deref(tc, h) ==
    [tc EXCEPT !.references = h[tc.references.addr],
               !.rules = [k \in 1..Len(h[tc.rules.addr]) |->
                            DerefItem(h[tc.rules.addr][k], h)]]

Appended == PyStr("appended")

AppendCount ==
    Cardinality({ak \in UNION {{<<a, k>> : k \in 1..Len(heap[a])} :
                                  a \in 1..Len(heap)} :
                    heap[ak[1]][ak[2]] = Appended})

InitGraph ==
    /\ xml = Malformed
    /\ schema = "TC_SCHEMA"
    /\ op = "start"
    /\ outcome = Pending
    /\ strOut = Pending
    /\ heap = <<>>
    /\ results = <<>>
    /\ touched = 0

Decode ==
    /\ Len(results) < MaxCalls
    /\ \E d \in GraphDocs :
       \E r \in {TestCase_from_element(d, schema, heap)} :
          /\ xml' = Source(d)
          /\ outcome' = r.ret
          /\ heap' = r.heap
          /\ results' = Append(results, r.ret)
    /\ op' = "from_element"
    /\ touched' = 0
    /\ UNCHANGED <<schema, strOut>>

\* TestCase(CaseId("REQ")): every other argument takes its default
Construct ==
    /\ Len(results) < MaxCalls
    /\ \E r \in {TestCase_init(CaseId_init(PyStr("REQ"), PyStr("CSIP"),
                                           PyStr("2.0")),
                               PyBool(TRUE), None, PyStr(""), None, heap)} :
          /\ outcome' = r.ret
          /\ heap' = r.heap
          /\ results' = Append(results, r.ret)
    /\ op' = "TestCase"
    /\ touched' = 0
    /\ UNCHANGED <<xml, schema, strOut>>

\* the caller appends to a list of one of the objects it holds
AppendTo ==
    /\ AppendCount < MaxAppends
    /\ \E i \in 1..Len(results) :
       \E ref \in Lists(results[i], heap) :
          /\ heap' = ListAppend(heap, ref, Appended)
          /\ touched' = i
    /\ op' = "append"
    /\ UNCHANGED <<xml, schema, outcome, strOut, results>>

NextGraph ==
    \/ Decode
    \/ Construct
    \/ AppendTo

SpecGraph == InitGraph /\ [][NextGraph]_vars

(***************************************************************************)
(* The properties.                                                         *)
(***************************************************************************)
HasResult == outcome.type = "TestCase"

RECURSIVE Flatten(_)
Flatten(ss) == IF ss = <<>> THEN <<>> ELSE Head(ss) \o Flatten(Tail(ss))

\* the children of the `rules` elements of a document, in document order
RulesChildren(doc) ==
    Flatten([k \in 1..Len(ChildrenTagged(doc, "rules")) |->
                ChildrenTagged(doc, "rules")[k].children])

\* those of them tagged `rule`
RuleChildren(doc) == SelectSeq(RulesChildren(doc), LAMBDA c : c.tag = "rule")

\* C1: from_element on an element that does not conform to the schema ends
\* in an error and returns no TestCase.
C1_NonConformingRaises ==
    (op = "from_element" /\ ~Validate(schema, xml.root)) => IsRaise(outcome)

\* C2: on a well-formed conforming document from_xml_string and
\* from_xml_file return a TestCase equal, field by field, to the one
\* from_element returns for the root.
C2_EntryPointsAgree ==
    (/\ op \in {"from_xml_string", "from_xml_file"}
     /\ xml.wellformed
     /\ Validate(schema, xml.root))
    => /\ HasResult
       /\ \E r \in {TestCase_from_element(xml.root, schema, <<>>)} :
             Deref(outcome, heap) = Deref(r.ret, r.heap)

\* C3: with N `rule` children under the `rules` element the decoded rules
\* have length N, the i-th decoded from the i-th `rule` child; the packages
\* of a rule are the `package` children of its corpusPackages, in order.
C3_RulesInOrder ==
    (HasResult /\ Len(ChildrenTagged(xml.root, "rules")) = 1) =>
        \E eles \in {RuleChildren(xml.root)} :
        \E rules \in {TestCase_rules(outcome, heap)} :
           /\ Len(rules) = Len(eles)
           /\ \A i \in 1..Len(eles) :
                /\ \E r \in {Rule_from_element(eles[i], <<>>)} :
                      DerefItem(rules[i], heap) = DerefItem(r.ret, r.heap)
                /\ \E cp \in {ChildrenTagged(eles[i], "corpusPackages")} :
                      Len(cp) = 1 =>
                         \E ps \in {ChildrenTagged(cp[1], "package")} :
                            Rule_packages(rules[i], heap) =
                               [k \in 1..Len(ps) |->
                                   Package_from_element(ps[k])]

\* C4: testable is true iff the raw attribute is exactly "TRUE", unknown iff
\* exactly "UNKNOWN", never both, and both are false for any other value or
\* none.
C4_Testability ==
    HasResult =>
        /\ TestCase_testable(outcome) =
              PyBool(<<"testable", "TRUE">> \in xml.root.attrib)
        /\ TestCase_unknown(outcome) =
              PyBool(<<"testable", "UNKNOWN">> \in xml.root.attrib)
        /\ ~(/\ TestCase_testable(outcome) = PyBool(TRUE)
             /\ TestCase_unknown(outcome) = PyBool(TRUE))
        /\ (xml.root.attrib \cap {<<"testable", "TRUE">>,
                                  <<"testable", "UNKNOWN">>} = {}
              => /\ TestCase_testable(outcome) = PyBool(FALSE)
                 /\ TestCase_unknown(outcome) = PyBool(FALSE))

C4_Witness ==
    /\ HasResult
    /\ <<"testable", "UNKNOWN">> \in xml.root.attrib
    /\ TestCase_unknown(outcome) = PyBool(TRUE)
    /\ TestCase_testable(outcome) = PyBool(FALSE)

\* C5: requirement_text is the text of the requirementText child when it
\* has text, and "" when the child is missing or empty; never None.
C5_RequirementText ==
    HasResult =>
        \E rt \in {ChildrenTagged(xml.root, "requirementText")} :
           /\ TestCase_requirement_text(outcome) # None
           /\ TestCase_requirement_text(outcome) =
                 IF rt # <<>> /\ rt[Len(rt)].text # None
                 THEN rt[Len(rt)].text ELSE PyStr("")

\* C6: converting a TestCase, a CaseId or a Rule to a string succeeds and
\* yields a str.
C6_StrSucceeds ==
    op \in {"str_TestCase", "str_CaseId", "str_Rule"} => strOut.type = "str"

\* C7: absent optional children give defaults and no failure: `rules`
\* without children gives no rules, a `rule` without `error` gives error
\* None, a `rule` without `corpusPackages` gives an empty list of packages.
C7_Defaults ==
    /\ op = "from_element" => HasResult
    /\ HasResult =>
        \E eles \in {RulesChildren(xml.root)} :
        \E rules \in {TestCase_rules(outcome, heap)} :
           /\ eles = <<>> => rules = <<>>
           /\ \A i \in DOMAIN eles \cap DOMAIN rules :
                eles[i].tag = "rule" =>
                   /\ ChildrenTagged(eles[i], "error") = <<>>
                         => rules[i].error = None
                   /\ ChildrenTagged(eles[i], "corpusPackages") = <<>>
                         => /\ rules[i].packages.type = "list"
                            /\ Rule_packages(rules[i], heap) = <<>>

C7_Witness ==
    /\ op = "from_element"
    /\ HasResult
    /\ RulesChildren(xml.root) = <<RuleFull, RuleBare>>
    /\ TestCase_rules(outcome, heap)[2].error = None
    /\ Rule_packages(TestCase_rules(outcome, heap)[2], heap) = <<>>

\* C8: the references of a decoded TestCase are empty.
C8_ReferencesEmpty ==
    HasResult => TestCase_references(outcome, heap) = <<>>

C8_Witness ==
    /\ op = "from_xml_file"
    /\ HasResult
    /\ ChildrenTagged(xml.root, "id") = <<IdFull>>
    /\ Len(TestCase_rules(outcome, heap)) = MaxRules
    /\ TestCase_references(outcome, heap) = <<>>

\* C9: only the children of `rules` tagged `rule` become entries of the
\* rules; a child with another tag contributes none.
C9_OnlyRuleChildren ==
    HasResult =>
        Len(TestCase_rules(outcome, heap)) = Len(RuleChildren(xml.root))

\* C10: the objects held share no list, a change to a list of one leaves
\* the others as they were, and a decode call after any changes returns
\* what it returns on its own.
C10_Independent ==
    /\ [](\A i, j \in 1..Len(results) :
             i # j => Lists(results[i], heap) \cap Lists(results[j], heap) = {})
    /\ [][/\ \A j \in 1..Len(results) :
                j # touched' =>
                   Deref(results'[j], heap') = Deref(results[j], heap)
          /\ op' = "from_element" =>
                \E r \in {TestCase_from_element(xml'.root, schema', <<>>)} :
                   Deref(outcome', heap') = Deref(r.ret, r.heap)]_vars

C10_Witness ==
    /\ Len(results) = MaxCalls
    /\ touched = 1
    /\ AppendCount = MaxAppends
    /\ \E i \in 2..Len(results) : Deref(results[i], heap).rules # <<>>

====
